---- MODULE Spec2Model ----
(***************************************************************************)
(* Browser-side calculator of src/main.py (PyScript / Pyodide).            *)
(*                                                                         *)
(* The page holds an input field (#expression), a button (#calc-btn) and   *)
(* an output element (#output).  calculate_expression reads the field,     *)
(* strips it, hands it to safe_eval (ast.parse + _eval_node) and writes    *)
(* either "Result: ..<br>Type: .." in green or "Error: .." in red.         *)
(*                                                                         *)
(* Strings are sequences of one-character strings.  Python numbers are     *)
(* records [t, n, d, im]: t is the Python type name, n/d the value as a    *)
(* reduced fraction (d = 1 for int and bool), im says that a complex       *)
(* value has a non-zero imaginary part (its n/d is then 0/1).  Floats are  *)
(* the exact rationals; values whose size leaves MaxMag, or whose value    *)
(* the fractions cannot carry, end the evaluation with the marker          *)
(* OutOfModel and such inputs are left out of the input sets.              *)
(***************************************************************************)
EXTENDS Integers, Sequences, FiniteSets, TLC

\* Largest numerator or denominator the model's numbers carry.
MaxMag == 10000

----------------------------------------------------------------------------
(* Python values and the outcome of an evaluation.                         *)

V(t, n, d) == [t |-> t, n |-> n, d |-> d, im |-> FALSE]
PyInt(n) == V("int", n, 1)
PyBool(b) == V("bool", IF b THEN 1 ELSE 0, 1)
PyFloat(n, d) == V("float", n, d)
PyStr == V("str", 0, 1)
NonReal == [t |-> "complex", n |-> 0, d |-> 1, im |-> TRUE]
NoVal == V("NoneType", 0, 1)

Ok(v) == [ok |-> TRUE, val |-> v, exc |-> "", msg |-> <<>>]
Raise(exc, msg) == [ok |-> FALSE, val |-> NoVal, exc |-> exc, msg |-> msg]
OutOfModel == Raise("OutOfModel", <<>>)

Abs(x) == IF x < 0 THEN -x ELSE x
Sign(x) == IF x < 0 THEN -1 ELSE IF x = 0 THEN 0 ELSE 1

RECURSIVE GCD(_, _)
GCD(a, b) == IF b = 0 THEN a ELSE GCD(b, a % b)

\* A number of type t with value n/d (d # 0), reduced; OutOfModel past MaxMag.
Mk(t, n, d) ==
    LET g == GCD(Abs(n), Abs(d))
        nn == (Sign(d) * n) \div g
        dd == Abs(d) \div g
    IN  IF Abs(nn) > MaxMag \/ dd > MaxMag THEN OutOfModel
        ELSE Ok(V(t, nn, dd))

IsZero(v) == v.n = 0 /\ ~v.im
IsComplex(v) == v.t = "complex"
IsFloat(v) == v.t = "float"

\* The type of a binary operation's result (bool counts as int).
ResT(a, b) ==
    IF IsComplex(a) \/ IsComplex(b) THEN "complex"
    ELSE IF IsFloat(a) \/ IsFloat(b) THEN "float"
    ELSE "int"

\* floor(n / d) for d # 0, as CPython's l_divmod: truncate, then step down
\* when the remainder is non-zero and its sign differs from the divisor's.
FloorQ(n, d) ==
    LET q == Sign(n) * Sign(d) * (Abs(n) \div Abs(d))
        r == n - q * d
    IN  IF r # 0 /\ Sign(r) # Sign(d) THEN q - 1 ELSE q

----------------------------------------------------------------------------
(* Python's arithmetic on these values: what the operators used by         *)
(* _eval_node do on int, bool, float and complex operands (CPython 3.11    *)
(* exception texts).                                                       *)

\* left + right
PyAdd(a, b) ==
    IF a.im /\ b.im THEN OutOfModel
    ELSE IF a.im \/ b.im THEN Ok(NonReal)
    ELSE Mk(ResT(a, b), a.n * b.d + b.n * a.d, a.d * b.d)

\* left - right
PySub(a, b) ==
    IF a.im /\ b.im THEN OutOfModel
    ELSE IF a.im \/ b.im THEN Ok(NonReal)
    ELSE Mk(ResT(a, b), a.n * b.d - b.n * a.d, a.d * b.d)

\* left * right
PyMul(a, b) ==
    IF a.im /\ b.im THEN OutOfModel
    ELSE IF a.im THEN (IF IsZero(b) THEN Ok(V("complex", 0, 1)) ELSE Ok(NonReal))
    ELSE IF b.im THEN (IF IsZero(a) THEN Ok(V("complex", 0, 1)) ELSE Ok(NonReal))
    ELSE Mk(ResT(a, b), a.n * b.n, a.d * b.d)

\* The text of the ZeroDivisionError of a true division.
DivZeroMsg(a, b) ==
    IF ResT(a, b) = "complex" THEN <<"complex ", "division by zero">>
    ELSE IF ResT(a, b) = "float" THEN <<"float ", "division by zero">>
    ELSE <<"division by zero">>

\* left / right: always a float (or complex), never an int.
Quotient(a, b) ==
    IF a.im /\ b.im THEN OutOfModel
    ELSE IF a.im THEN Ok(NonReal)
    ELSE IF b.im THEN (IF IsZero(a) THEN Ok(V("complex", 0, 1)) ELSE Ok(NonReal))
    ELSE Mk(IF ResT(a, b) = "int" THEN "float" ELSE ResT(a, b), a.n * b.d, a.d * b.n)

\* A division that saturates on a zero divisor instead of raising, as
\* IEEE arithmetic does (the largest value stands for infinity).
SaturatingDiv(a, b) ==
    IF IsZero(b) THEN Ok(V("float", Sign(a.n) * MaxMag, 1)) ELSE Quotient(a, b)

PyTrueDiv(a, b) ==
    IF IsZero(b) THEN Raise("ZeroDivisionError", DivZeroMsg(a, b)) ELSE Quotient(a, b)

\* A float n/d is held exactly by a binary double only when d is a power of
\* two; any other quotient is rounded, and the floor and the remainder of a
\* rounded operand depend on the rounding, which these values do not carry.
RECURSIVE IsPowerOfTwo(_)
IsPowerOfTwo(d) == d = 1 \/ (d % 2 = 0 /\ IsPowerOfTwo(d \div 2))

Rounded(v) == IsFloat(v) /\ ~IsPowerOfTwo(v.d)

UnsupportedOperands(sym, a, b) ==
    Raise("TypeError",
          <<"unsupported operand type(s) for ", sym, ": '", a.t, "' and '", b.t, "'">>)

\* A quotient rounded toward zero, as C's integer division does.
TruncDiv(a, b) == Sign(a) * Sign(b) * (Abs(a) \div Abs(b))

\* left // right on two ints: floor of the quotient.
IntFloorDiv(a, b) == FloorQ(a, b)

\* left % right on two ints: the remainder of the floor division.
IntMod(a, b) == a - IntFloorDiv(a, b) * b

\* left // right
PyFloorDiv(a, b) ==
    IF IsComplex(a) \/ IsComplex(b) THEN UnsupportedOperands("//", a, b)
    ELSE IF ResT(a, b) = "int"
    THEN IF b.n = 0
         THEN Raise("ZeroDivisionError", <<"integer division or modulo by zero">>)
         ELSE Mk("int", IntFloorDiv(a.n, b.n), 1)
    ELSE IF b.n = 0
         THEN Raise("ZeroDivisionError", <<"float floor division by zero">>)
         ELSE IF Rounded(a) \/ Rounded(b) THEN OutOfModel
         ELSE Mk("float", FloorQ(a.n * b.d, a.d * b.n), 1)

\* left % right
PyMod(a, b) ==
    IF IsComplex(a) \/ IsComplex(b) THEN UnsupportedOperands("%", a, b)
    ELSE IF ResT(a, b) = "int"
    THEN IF b.n = 0
         THEN Raise("ZeroDivisionError", <<"integer modulo by zero">>)
         ELSE Mk("int", IntMod(a.n, b.n), 1)
    ELSE IF b.n = 0
         THEN Raise("ZeroDivisionError", <<"float modulo">>)
         ELSE IF Rounded(a) \/ Rounded(b) THEN OutOfModel
         ELSE LET q == FloorQ(a.n * b.d, a.d * b.n)
              IN  Mk("float", a.n * b.d - q * b.n * a.d, a.d * b.d)

\* acc * b ** e for e >= 0, stopping once past MaxMag.
RECURSIVE PowAcc(_, _, _)
PowAcc(b, e, acc) ==
    IF e = 0 \/ Abs(acc) > MaxMag THEN acc ELSE PowAcc(b, e - 1, acc * b)

\* b ** e for e >= 0, or some number past MaxMag when the power is past it.
PowCap(b, e) ==
    IF e = 0 THEN 1
    ELSE IF b = 0 THEN 0
    ELSE IF b = 1 THEN 1
    ELSE IF b = -1 THEN (IF e % 2 = 0 THEN 1 ELSE -1)
    ELSE PowAcc(b, e, 1)

\* (n/d) ** e for an integer e, of type t; n # 0 when e < 0.
RatPow(t, n, d, e) ==
    LET pn == PowCap(n, Abs(e))
        pd == PowCap(d, Abs(e))
    IN  IF Abs(pn) > MaxMag \/ pd > MaxMag THEN OutOfModel
        ELSE IF e >= 0 THEN Mk(t, pn, pd)
        ELSE Mk(t, pd, pn)

IsSquare(n) == \E r \in 0..n : r * r = n
ISqrt(n) == CHOOSE r \in 0..n : r * r = n

ZeroToNegative ==
    Raise("ZeroDivisionError", <<"0.0 cannot be raised to a negative power">>)

\* left ** right
PyPow(a, b) ==
    IF IsComplex(a) \/ IsComplex(b) THEN OutOfModel
    ELSE IF ResT(a, b) = "int"
    THEN IF b.n >= 0 THEN RatPow("int", a.n, 1, b.n)
         ELSE IF a.n = 0 THEN ZeroToNegative
         ELSE RatPow("float", a.n, 1, b.n)
    ELSE IF b.n = 0 THEN Ok(PyFloat(1, 1))
    ELSE IF a.n = 0 THEN (IF b.n < 0 THEN ZeroToNegative ELSE Ok(PyFloat(0, 1)))
    ELSE IF b.d = 1 THEN RatPow("float", a.n, a.d, b.n)
    \* a fractional exponent
    ELSE IF a.n < 0 THEN Ok(NonReal)
    ELSE IF b.d = 2 /\ IsSquare(a.n) /\ IsSquare(a.d)
    THEN RatPow("float", ISqrt(a.n), ISqrt(a.d), b.n)
    ELSE OutOfModel

\* +val
PyPos(v) == IF v.t = "bool" THEN Ok(PyInt(v.n)) ELSE Ok(v)

\* -val
PyNeg(v) ==
    IF v.im THEN Ok(NonReal)
    ELSE Mk(IF v.t = "bool" THEN "int" ELSE v.t, -v.n, v.d)

----------------------------------------------------------------------------
(* str.strip() and the tokens ast.parse reads from the stripped text.      *)

Digits == <<"0", "1", "2", "3", "4", "5", "6", "7", "8", "9">>
DigitChars == {Digits[i] : i \in DOMAIN Digits}
LetterChars == {"T", "r", "u", "e", "F", "a", "l", "s", "n", "d", "o", "t", "x", "f"}
SpaceChars == {" ", "\t"}
QuoteChar == "'"
\* The characters input fields hold in this model.
Chars == DigitChars \cup LetterChars \cup SpaceChars \cup
         {".", "+", "-", "*", "/", "%", "(", ")", "=", "<", ">", "!", "|", "~",
          QuoteChar, "$"}

DigitVal(c) == (CHOOSE i \in DOMAIN Digits : Digits[i] = c) - 1

Chr(s, i) == IF i <= Len(s) THEN s[i] ELSE ""

\* s without its leading white space.
RECURSIVE lstrip(_)
lstrip(s) ==
    IF s # <<>> /\ Head(s) \in SpaceChars THEN lstrip(Tail(s)) ELSE s

\* s without its trailing white space.
RECURSIVE rstrip(_)
rstrip(s) ==
    IF s # <<>> /\ s[Len(s)] \in SpaceChars
    THEN rstrip(SubSeq(s, 1, Len(s) - 1))
    ELSE s

\* Only the leading blanks removed.
StripLeft(s) == lstrip(s)

\* str.strip()
strip(s) == rstrip(lstrip(s))

\* First position from i on whose character is not in set.
RECURSIVE SkipWhile(_, _, _)
SkipWhile(s, i, set) ==
    IF i <= Len(s) /\ s[i] \in set THEN SkipWhile(s, i + 1, set) ELSE i

\* The number written by a run of digits, capped just past MaxMag.
RECURSIVE DigitsToNat(_, _)
DigitsToNat(ds, acc) ==
    IF ds = <<>> \/ acc > MaxMag THEN acc
    ELSE DigitsToNat(Tail(ds), acc * 10 + DigitVal(Head(ds)))

Token(k, s, id, val) == [k |-> k, s |-> s, id |-> id, val |-> val]
OpTok(s) == Token("OP", s, <<>>, NoVal)
EndTok == Token("END", "", <<>>, NoVal)

LexOk(toks) == [ok |-> TRUE, toks |-> toks, oom |-> FALSE]
LexError == [ok |-> FALSE, toks |-> <<>>, oom |-> FALSE]
LexOutOfModel == [ok |-> FALSE, toks |-> <<>>, oom |-> TRUE]

TwoCharOps == {<<"*", "*">>, <<"/", "/">>, <<"=", "=">>, <<"!", "=">>,
               <<"<", "=">>, <<">", "=">>, <<"<", "<">>, <<">", ">">>}
TwoCharName(a, b) ==
    CASE a = "*" -> "**" [] a = "/" -> "//" [] a = "=" -> "=="
      [] a = "!" -> "!=" [] a = "<" /\ b = "=" -> "<=" [] a = ">" /\ b = "=" -> ">="
      [] a = "<" /\ b = "<" -> "<<" [] OTHER -> ">>"
OneCharOps == {"+", "-", "*", "/", "%", "(", ")", "=", "<", ">", "|", "~", "."}

\* The NUMBER token starting at s[i]: digits, then an optional point and
\* digits.  An int literal with a leading zero is an error unless it is all
\* zeros.  A letter right after the digits (0x10, 1e3, 1and) is outside the model.
LexNumber(s, i) ==
    LET j == SkipWhile(s, i, DigitChars)
        hasPoint == Chr(s, j) = "."
        k == IF hasPoint THEN SkipWhile(s, j + 1, DigitChars) ELSE j
        ip == SubSeq(s, i, j - 1)
        fp == IF hasPoint THEN SubSeq(s, j + 1, k - 1) ELSE <<>>
        n == DigitsToNat(ip \o fp, 0)
        den == DigitsToNat(<<"1">> \o [x \in 1..Len(fp) |-> "0"], 0)
        val == IF hasPoint THEN Mk("float", n, den) ELSE Mk("int", n, 1)
    IN  IF Chr(s, k) \in LetterChars
        THEN [ok |-> FALSE, oom |-> TRUE, next |-> k, tok |-> EndTok]
        ELSE IF ~hasPoint /\ Len(ip) > 1 /\ ip[1] = "0" /\ n # 0
        THEN [ok |-> FALSE, oom |-> FALSE, next |-> k, tok |-> EndTok]
        ELSE IF n > MaxMag \/ den > MaxMag \/ ~val.ok
        THEN [ok |-> FALSE, oom |-> TRUE, next |-> k, tok |-> EndTok]
        ELSE [ok |-> TRUE, oom |-> FALSE, next |-> k,
              tok |-> Token("NUMBER", "", <<>>, val.val)]

\* The tokens of s from position i on, after the tokens acc.
RECURSIVE Lex(_, _, _)
Lex(s, i, acc) ==
    LET c == Chr(s, i)
        c2 == Chr(s, i + 1)
    IN  IF i > Len(s) THEN LexOk(acc)
        ELSE IF c \in SpaceChars THEN Lex(s, i + 1, acc)
        ELSE IF c \in DigitChars \/ (c = "." /\ c2 \in DigitChars)
        THEN LET r == LexNumber(s, i)
             IN  IF r.ok THEN Lex(s, r.next, Append(acc, r.tok))
                 ELSE IF r.oom THEN LexOutOfModel ELSE LexError
        ELSE IF c \in LetterChars
        \* letters right before a quote (r'..', f'..') are outside the model
        THEN LET j == SkipWhile(s, i, LetterChars \cup DigitChars)
             IN  IF Chr(s, j) = QuoteChar THEN LexOutOfModel
                 ELSE Lex(s, j, Append(acc, Token("NAME", "", SubSeq(s, i, j - 1), NoVal)))
        ELSE IF c = QuoteChar
        THEN LET j == SkipWhile(s, i + 1, Chars \ {QuoteChar})
             IN  IF j > Len(s) THEN LexError
                 ELSE Lex(s, j + 1, Append(acc, Token("STRING", "", SubSeq(s, i + 1, j - 1), NoVal)))
        ELSE IF <<c, c2>> \in TwoCharOps
        THEN Lex(s, i + 2, Append(acc, OpTok(TwoCharName(c, c2))))
        ELSE IF c \in OneCharOps THEN Lex(s, i + 1, Append(acc, OpTok(c)))
        ELSE LexError

Tokenize(s) == Lex(s, 1, <<>>)

----------------------------------------------------------------------------
(* ast.parse(expr, mode="eval"): Python's expression grammar over these    *)
(* tokens.  A node is [type, op, kids, value] with ast's class names.      *)

Node(type, op, kids, value) == [type |-> type, op |-> op, kids |-> kids, value |-> value]
NoNode == Node("", "", <<>>, NoVal)
Constant(v) == Node("Constant", "", <<>>, v)
BinOp(l, op, r) == Node("BinOp", op, <<l, r>>, NoVal)
UnaryOp(op, x) == Node("UnaryOp", op, <<x>>, NoVal)

Parsed(node, pos) == [ok |-> TRUE, node |-> node, pos |-> pos]
NoParse == [ok |-> FALSE, node |-> NoNode, pos |-> 0]

Tok(toks, p) == IF p <= Len(toks) THEN toks[p] ELSE EndTok
IsOp(t, s) == t.k = "OP" /\ t.s = s
IsOpIn(t, set) == t.k = "OP" /\ t.s \in set
IsKw(t, w) == t.k = "NAME" /\ t.id = w

KwTrue == <<"T", "r", "u", "e">>
KwFalse == <<"F", "a", "l", "s", "e">>
KwAnd == <<"a", "n", "d">>
KwOr == <<"o", "r">>
KwNot == <<"n", "o", "t">>
\* The other keywords these letters spell; none can stand in an expression.
StatementKeywords ==
    {<<"a", "s">>, <<"a", "s", "s", "e", "r", "t">>, <<"d", "e", "f">>,
     <<"d", "e", "l">>, <<"e", "l", "s", "e">>, <<"f", "o", "r">>,
     <<"r", "e", "t", "u", "r", "n">>}
Keywords == {KwTrue, KwFalse, KwAnd, KwOr, KwNot} \cup StatementKeywords

\* Position after the run of STRING tokens starting at p.
RECURSIVE SkipStrings(_, _)
SkipStrings(toks, p) == IF Tok(toks, p).k = "STRING" THEN SkipStrings(toks, p + 1) ELSE p

SumOpName(s) == IF s = "+" THEN "Add" ELSE "Sub"
TermOpName(s) ==
    CASE s = "*" -> "Mult" [] s = "/" -> "Div" [] s = "//" -> "FloorDiv" [] OTHER -> "Mod"
FactorOpName(s) ==
    CASE s = "+" -> "UAdd" [] s = "-" -> "USub" [] OTHER -> "Invert"
ShiftOpName(s) == IF s = "<<" THEN "LShift" ELSE "RShift"
CompareOps == {"==", "!=", "<", ">", "<=", ">="}

\* A grammar whose sums are the operands of its terms.
TermLooserThanSum ==
    <<"disjunction", "conjunction", "inversion", "comparison", "bitwise_or",
      "shift_expr", "term", "sum", "factor", "power", "primary", "atom">>

\* The levels of Python's expression grammar, loosest first.
LvDisjunction == "disjunction"
LevelOrder == <<"disjunction", "conjunction", "inversion", "comparison", "bitwise_or",
                "shift_expr", "sum", "term", "factor", "power", "primary", "atom">>
\* The level whose operands a level's rule names.
Tighter(lv) == LevelOrder[(CHOOSE i \in DOMAIN LevelOrder : LevelOrder[i] = lv) + 1]

\* The levels of the rules  lv: lv op tighter | tighter  (for disjunction,
\* conjunction and comparison: tighter (op tighter)*).
InfixLevels == {"disjunction", "conjunction", "comparison", "bitwise_or",
                "shift_expr", "sum", "term"}

\* Is t an operator of the infix level lv?
IsInfixOf(lv, t) ==
    CASE lv = "disjunction" -> IsKw(t, KwOr)
      [] lv = "conjunction" -> IsKw(t, KwAnd)
      [] lv = "comparison" -> IsOpIn(t, CompareOps)
      [] lv = "bitwise_or" -> IsOp(t, "|")
      [] lv = "shift_expr" -> IsOpIn(t, {"<<", ">>"})
      [] lv = "sum" -> IsOpIn(t, {"+", "-"})
      [] lv = "term" -> IsOpIn(t, {"*", "/", "//", "%"})
      [] OTHER -> FALSE

\* The node of `left op right` at the infix level lv.  (ast collects the
\* operands of a chain of 'or', 'and' or comparisons in one node; here the
\* chain nests to the left, and the node's type is the same.)
Infix(lv, left, t, right) ==
    CASE lv = "disjunction" -> Node("BoolOp", "Or", <<left, right>>, NoVal)
      [] lv = "conjunction" -> Node("BoolOp", "And", <<left, right>>, NoVal)
      [] lv = "comparison" -> Node("Compare", t.s, <<left, right>>, NoVal)
      [] lv = "bitwise_or" -> BinOp(left, "BitOr", right)
      [] lv = "shift_expr" -> BinOp(left, ShiftOpName(t.s), right)
      [] lv = "sum" -> BinOp(left, SumOpName(t.s), right)
      [] OTHER -> BinOp(left, TermOpName(t.s), right)

RECURSIVE ParseLevel(_, _, _), InfixRest(_, _, _, _), PrimaryRest(_, _, _)

\* The rule of level lv applied at token p.
ParseLevel(toks, p, lv) ==
    LET t == Tok(toks, p)
    IN  IF lv \in InfixLevels
        THEN LET l == ParseLevel(toks, p, Tighter(lv))
             IN  IF ~l.ok THEN NoParse ELSE InfixRest(toks, lv, l.node, l.pos)
        ELSE IF lv = "inversion"
        \* inversion: 'not' inversion | comparison
        THEN IF IsKw(t, KwNot)
             THEN LET r == ParseLevel(toks, p + 1, "inversion")
                  IN  IF ~r.ok THEN NoParse ELSE Parsed(UnaryOp("Not", r.node), r.pos)
             ELSE ParseLevel(toks, p, "comparison")
        ELSE IF lv = "factor"
        \* factor: ('+' | '-' | '~') factor | power
        THEN IF IsOpIn(t, {"+", "-", "~"})
             THEN LET r == ParseLevel(toks, p + 1, "factor")
                  IN  IF ~r.ok THEN NoParse
                      ELSE Parsed(UnaryOp(FactorOpName(t.s), r.node), r.pos)
             ELSE ParseLevel(toks, p, "power")
        ELSE IF lv = "power"
        \* power: primary '**' factor | primary
        THEN LET l == ParseLevel(toks, p, "primary")
             IN  IF ~l.ok THEN NoParse
                 ELSE IF IsOp(Tok(toks, l.pos), "**")
                 THEN LET r == ParseLevel(toks, l.pos + 1, "factor")
                      IN  IF ~r.ok THEN NoParse
                          ELSE Parsed(BinOp(l.node, "Pow", r.node), r.pos)
                 ELSE l
        ELSE IF lv = "primary"
        \* primary: primary '.' NAME | primary '(' [arguments] ')' | atom
        THEN LET a == ParseLevel(toks, p, "atom")
             IN  IF ~a.ok THEN NoParse ELSE PrimaryRest(toks, a.node, a.pos)
        \* atom: NAME | 'True' | 'False' | STRING+ | NUMBER
        \*     | '(' expression ')' | '(' ')'
        ELSE IF t.k = "NUMBER" THEN Parsed(Constant(t.val), p + 1)
        ELSE IF t.k = "STRING"
        THEN Parsed(Constant(PyStr), SkipStrings(toks, p))
        ELSE IF t.k = "NAME"
        THEN IF t.id = KwTrue THEN Parsed(Constant(PyBool(TRUE)), p + 1)
             ELSE IF t.id = KwFalse THEN Parsed(Constant(PyBool(FALSE)), p + 1)
             ELSE IF t.id \in Keywords THEN NoParse
             ELSE Parsed(Node("Name", "", <<>>, NoVal), p + 1)
        ELSE IF IsOp(t, "(")
        THEN IF IsOp(Tok(toks, p + 1), ")")
             THEN Parsed(Node("Tuple", "", <<>>, NoVal), p + 2)
             ELSE LET r == ParseLevel(toks, p + 1, LvDisjunction)
                  IN  IF r.ok /\ IsOp(Tok(toks, r.pos), ")")
                      THEN Parsed(r.node, r.pos + 1)
                      ELSE NoParse
        ELSE NoParse

\* The operators of the infix level lv that follow `left`, and their operands.
InfixRest(toks, lv, left, p) ==
    IF IsInfixOf(lv, Tok(toks, p))
    THEN LET r == ParseLevel(toks, p + 1, Tighter(lv))
         IN  IF ~r.ok THEN NoParse
             ELSE InfixRest(toks, lv, Infix(lv, left, Tok(toks, p), r.node), r.pos)
    ELSE Parsed(left, p)

\* The attribute accesses and calls that follow the primary `left`.  A call
\* takes no argument, one positional argument or one NAME '=' expression.
PrimaryRest(toks, left, p) ==
    IF IsOp(Tok(toks, p), ".")
    THEN IF Tok(toks, p + 1).k = "NAME" /\ Tok(toks, p + 1).id \notin Keywords
         THEN PrimaryRest(toks, Node("Attribute", "", <<left>>, NoVal), p + 2)
         ELSE NoParse
    ELSE IF IsOp(Tok(toks, p), "(")
    THEN IF IsOp(Tok(toks, p + 1), ")")
         THEN PrimaryRest(toks, Node("Call", "", <<left>>, NoVal), p + 2)
         ELSE LET kw == /\ Tok(toks, p + 1).k = "NAME"
                        /\ Tok(toks, p + 1).id \notin Keywords
                        /\ IsOp(Tok(toks, p + 2), "=")
                  r == ParseLevel(toks, IF kw THEN p + 3 ELSE p + 1, LvDisjunction)
              IN  IF r.ok /\ IsOp(Tok(toks, r.pos), ")")
                  THEN PrimaryRest(toks, Node("Call", "", <<left, r.node>>, NoVal),
                                   r.pos + 1)
                  ELSE NoParse
    ELSE Parsed(left, p)

\* expression: disjunction
ParseExpression(toks, p) == ParseLevel(toks, p, LvDisjunction)

\* Starred arguments, f(*x) and f(**x), are outside the model.
HasStarredArgument(toks) ==
    \E i \in 1..(Len(toks) - 1) : IsOp(toks[i], "(") /\ IsOpIn(toks[i + 1], {"*", "**"})

SyntaxError == Raise("SyntaxError", <<"invalid syntax", " (<unknown>, line 1)">>)

\* ast.parse(expr, mode="eval"): the Expression node, or SyntaxError.
ast_parse(expr) ==
    LET lx == Tokenize(expr)
        r == ParseExpression(lx.toks, 1)
    IN  IF lx.oom \/ HasStarredArgument(lx.toks)
        THEN [ok |-> FALSE, node |-> NoNode, err |-> OutOfModel]
        ELSE IF lx.ok /\ r.ok /\ r.pos = Len(lx.toks) + 1
        THEN [ok |-> TRUE, node |-> Node("Expression", "", <<r.node>>, NoVal), err |-> SyntaxError]
        ELSE [ok |-> FALSE, node |-> NoNode, err |-> SyntaxError]

----------------------------------------------------------------------------
(* _eval_node and safe_eval.                                               *)

\* isinstance(node.value, (int, float)); bool is a subclass of int.
IsIntOrFloat(v) == v.t \in {"int", "float", "bool"}

\* The operator branches of a BinOp, in the order of the code.
EvalBinOp(op, left, right) ==
    IF op = "Add" THEN PyAdd(left, right)
    ELSE IF op = "Sub" THEN PySub(left, right)
    ELSE IF op = "Mult" THEN PyMul(left, right)
    ELSE IF op = "Div" THEN PyTrueDiv(left, right)
    ELSE IF op = "Mod" THEN PyMod(left, right)
    ELSE IF op = "FloorDiv" THEN PyFloorDiv(left, right)
    ELSE IF op = "Pow" THEN PyPow(left, right)
    ELSE Raise("ValueError", <<"Unsupported operator">>)

\* The operator branches of a UnaryOp.
EvalUnaryOp(op, val) ==
    IF op = "UAdd" THEN PyPos(val)
    ELSE IF op = "USub" THEN PyNeg(val)
    ELSE Raise("ValueError", <<"Unsupported unary operator">>)

\* A Constant node: its value when that is an int or a float.
EvalConstant(value) ==
    IF IsIntOrFloat(value) THEN Ok(value)
    ELSE Raise("ValueError", <<"Only int/float constants allowed">>)

RECURSIVE _eval_node(_)
_eval_node(node) ==
    IF node.type = "Expression" THEN _eval_node(node.kids[1])
    ELSE IF node.type = "BinOp"
    THEN LET left == _eval_node(node.kids[1])
         IN  IF ~left.ok THEN left
             ELSE LET right == _eval_node(node.kids[2])
                  IN  IF ~right.ok THEN right
                      ELSE EvalBinOp(node.op, left.val, right.val)
    ELSE IF node.type = "UnaryOp"
    THEN LET val == _eval_node(node.kids[1])
         IN  IF ~val.ok THEN val ELSE EvalUnaryOp(node.op, val.val)
    ELSE IF node.type = "Constant" THEN EvalConstant(node.value)
    ELSE Raise("ValueError", <<"Unsupported expression type: ", node.type>>)

\* _eval_node(parsed), or the exception ast.parse raised.
EvalParsed(parsed) == IF ~parsed.ok THEN parsed.err ELSE _eval_node(parsed.node)

\* safe_eval(expr): the value, or the exception raised by ast.parse or _eval_node.
safe_eval(expr) == EvalParsed(ast_parse(expr))

----------------------------------------------------------------------------
(* The state of the page and of the script.                                *)

VARIABLES
    readyState,     \* document.readyState
    hasButton,      \* #calc-btn exists
    hasInput,       \* #expression exists
    hasOutput,      \* #output exists
    domListener,    \* setup is registered for DOMContentLoaded
    clickListener,  \* calculate_expression is registered for click on #calc-btn
    keyListener,    \* _on_key is registered for keydown on #expression
    PROXIES,        \* _PROXIES: the functions whose proxies are kept
    value,          \* #expression.value
    output,         \* #output: its text and style.color
    lastReq,        \* history: the last run of calculate_expression
    memo,           \* history: an earlier run and the output it left
    tmpl            \* history: how the field's text was composed

vars == <<readyState, hasButton, hasInput, hasOutput, domListener, clickListener,
          keyListener, PROXIES, value, output, lastReq, memo, tmpl>>

----------------------------------------------------------------------------
(* What the output element shows.                                          *)

Text(head, val, type, msg) == [head |-> head, value |-> val, type |-> type, msg |-> msg]
\* What the output element shows before any request.
InitialOutput == [text |-> Text("", NoVal, "", <<>>), color |-> ""]
PleaseOutput == [text |-> Text("Please enter an expression.", NoVal, "", <<>>), color |-> "red"]

\* isinstance(result, float) and result.is_integer(): then int(result).
Normalize(result) ==
    IF result.t = "float" /\ result.d = 1 THEN PyInt(result.n) ELSE result

\* f"Result: {result}<br>Type: {type(result).__name__}", in green.
ResultOutput(result) ==
    [text |-> Text("Result: ", Normalize(result), Normalize(result).t, <<>>),
     color |-> "green"]

\* An error rendering that leaves an output already in red as it is.
StaleErrorOutput(e) ==
    IF output.color = "red" THEN output
    ELSE [text |-> Text("Error: ", NoVal, "", e.msg), color |-> "red"]

\* f"Error: {e}", in red.
ErrorOutput(e) == [text |-> Text("Error: ", NoVal, "", e.msg), color |-> "red"]

FieldValue(s) == [none |-> FALSE, s |-> s]
NoFieldValue == [none |-> TRUE, s |-> <<>>]

\* (input_el.value or "").strip()
StrippedValue(v) == IF v.none THEN <<>> ELSE strip(v.s)

----------------------------------------------------------------------------
(* calculate_expression, _on_key and setup.                                *)

\* Only the evaluator's own error class.
OnlyValueError == {"ValueError"}

\* The classes `except Exception` catches.
ExceptionClasses ==
    {"SyntaxError", "ValueError", "ZeroDivisionError", "TypeError"}

NoReq == [made |-> FALSE, trigger |-> "", read |-> NoFieldValue, called |-> FALSE,
          arg |-> <<>>, res |-> Ok(NoVal), escaped |-> FALSE]
NoMemo == [set |-> FALSE, trigger |-> "", read |-> NoFieldValue, output |-> InitialOutput,
           overwritten |-> FALSE]

\* The try / except of calculate_expression around result = safe_eval(expr),
\* after the checks before it: whether safe_eval was called, with what, what
\* came of it, and what #output shows afterwards.
Outcome(expr, result) ==
    LET ran == [called |-> FALSE, arg |-> <<>>, res |-> Ok(NoVal), escaped |-> FALSE,
                output |-> output]
        evaluated == [called |-> TRUE, arg |-> expr, res |-> result, escaped |-> FALSE,
                      output |-> output]
    IN  IF ~hasInput \/ ~hasOutput THEN ran
        ELSE IF expr = <<>> THEN [ran EXCEPT !.output = PleaseOutput]
        ELSE IF result.ok THEN [evaluated EXCEPT !.output = ResultOutput(result.val)]
        ELSE IF result.exc \in ExceptionClasses
        THEN [evaluated EXCEPT !.output = ErrorOutput(result)]
        ELSE [evaluated EXCEPT !.escaped = TRUE]

Evaluate(expr) == Outcome(expr, safe_eval(expr))

\* The body of calculate_expression on the page as it is.
Rendered == Evaluate(StrippedValue(value))

\* The record of a run of calculate_expression for the event `trigger`.
Request(trigger, r) ==
    [made |-> TRUE, trigger |-> trigger, read |-> value, called |-> r.called,
     arg |-> r.arg, res |-> r.res, escaped |-> r.escaped]

\* The run writes #output; the histories note the run, and that the
\* remembered output has since been replaced by a different one.
Commit(trigger, r) ==
    /\ output' = r.output
    /\ lastReq' = Request(trigger, r)
    /\ memo' = IF memo.set /\ r.output # memo.output
               THEN [memo EXCEPT !.overwritten = TRUE] ELSE memo

\* A handler whose keydown path writes the text but not the colour.
KeydownKeepsColor(trigger) ==
    IF trigger = "keydown"
    THEN Commit(trigger, [Rendered EXCEPT !.output.color = output.color])
    ELSE Commit(trigger, Rendered)

\* calculate_expression(evt), run for the event `trigger`.
calculate_expression(trigger) == Commit(trigger, Rendered)

\* The keys of the keydown events; "" is an event without a key attribute.
Keys == {"Enter", "a", ""}

\* _on_key(ev)
_on_key(key) ==
    IF key = "Enter" THEN calculate_expression("keydown")
    ELSE UNCHANGED <<output, lastReq, memo>>

\* What setup() leaves in the listener registry, from the proxies kept so far.
SetupProxies(proxies) ==
    LET withBtn == IF hasButton THEN Append(proxies, "calculate_expression") ELSE proxies
    IN  IF hasInput THEN Append(withBtn, "_on_key") ELSE withBtn

\* The user clicks #calc-btn: the click listener runs.
Click ==
    /\ hasButton /\ clickListener
    /\ calculate_expression("click")
    /\ UNCHANGED <<readyState, hasButton, hasInput, hasOutput, domListener,
                   clickListener, keyListener, PROXIES, value, tmpl>>

\* The user presses a key in #expression: the keydown listener runs.
KeyDown(key) ==
    /\ hasInput /\ keyListener
    /\ _on_key(key)
    /\ UNCHANGED <<readyState, hasButton, hasInput, hasOutput, domListener,
                   clickListener, keyListener, PROXIES, value, tmpl>>

\* The document finishes loading: setup runs if the script registered it.
DOMContentLoaded ==
    /\ readyState = "loading"
    /\ readyState' = "interactive"
    /\ IF domListener
       THEN /\ clickListener' = hasButton
            /\ keyListener' = hasInput
            /\ PROXIES' = SetupProxies(PROXIES)
       ELSE UNCHANGED <<clickListener, keyListener, PROXIES>>
    /\ UNCHANGED <<hasButton, hasInput, hasOutput, domListener, value, output,
                   lastReq, memo, tmpl>>

----------------------------------------------------------------------------
(* The texts typed into the field.                                         *)

\* Largest integer literal of the composed expressions.
MaxOperand == 7
\* Most blanks put before or after a text.
MaxPad == 1

RECURSIVE IntToChars(_)
IntToChars(n) ==
    IF n < 10 THEN <<Digits[n + 1]>>
    ELSE IntToChars(n \div 10) \o <<Digits[(n % 10) + 1]>>

Operand(txt, val) == [txt |-> txt, val |-> val]
IntOperand(n) == Operand(IntToChars(n), PyInt(n))
NoOperand == Operand(<<>>, NoVal)
Half == Operand(<<"0", ".", "5">>, PyFloat(1, 2))
TwoAndHalf == Operand(<<"2", ".", "5">>, PyFloat(5, 2))

BinOperands == {IntOperand(n) : n \in 0..MaxOperand} \cup {Half, TwoAndHalf}
TriOperands == {IntOperand(2), IntOperand(3)}
BinarySymbols == {"+", "-", "*", "/", "%", "//", "**"}
LeftSigns == {"", "-", "(-)"}
RightSigns == {"", "-"}

OpText(sym) ==
    CASE sym = "**" -> <<"*", "*">> [] sym = "//" -> <<"/", "/">> [] OTHER -> <<sym>>

SignedText(u, txt) ==
    CASE u = "-" -> <<"-">> \o txt
      [] u = "(-)" -> <<"(", "-">> \o txt \o <<")">>
      [] OTHER -> txt

\* Sub-expressions of the quotients and powers "(l) / (r)", "(l) ** (r)".
SubExprs ==
    {<<"5">>, <<"5", ".", "0">>, <<"0">>, <<"0", ".", "0">>, <<"2", "-", "2">>,
     <<"0", "*", "3">>, <<"-", "8">>, <<"-", "2", ".", "5">>, <<"0", ".", "5">>,
     <<"1", "/", "4">>, <<"T", "r", "u", "e">>, <<"F", "a", "l", "s", "e">>,
     <<"(", "-", "8", ")", "*", "*", "0", ".", "5">>, <<"x">>, <<"1", "/", "0">>}

\* Texts that hold something other than arithmetic, or are malformed.
RawInputs ==
    {<<"x">>, <<"'", "a", "'">>, <<"'", "a", "'", "*", "2">>, <<"T", "r", "u", "e">>,
     <<"F", "a", "l", "s", "e">>, <<"T", "r", "u", "e", "+", "1">>,
     <<"2", "*", "*", "T", "r", "u", "e">>, <<"(", "F", "a", "l", "s", "e", ")">>,
     <<"1", "<", "2">>, <<"1", "=", "=", "1">>, <<"1", "!", "=", "2">>,
     <<"1", ">", "=", "2">>, <<"1", " ", "a", "n", "d", " ", "2">>,
     <<"1", " ", "o", "r", " ", "2">>, <<"n", "o", "t", " ", "1">>,
     <<"f", "(", "1", ")">>, <<"f", "(", ")">>, <<"f", "(", "x", "=", "1", ")">>,
     <<"2", "(", "3", ")">>, <<"x", "=", "1">>, <<"x", "+", "1">>, <<"1", "/", "x">>,
     <<"x", ".", "f">>, <<"(", ")">>, <<"1", "|", "2">>, <<"~", "1">>,
     <<"1", "<", "<", "2">>, <<"f", "o", "r">>, <<"1", "$", "2">>, <<"2", "+">>,
     <<"(", "2">>, <<"2", ")">>, <<"0", "1">>, <<"1", " ", "2">>, <<"'", "a">>,
     <<"2", "*", " ", "*", "3">>, <<"1", ".", "+", ".", "5">>, <<"0", "0">>}

\* Spaced expressions whose grouping decides the value.
GroupingExamples ==
    {<<"2", " ", "+", " ", "3", " ", "*", " ", "4">>,
     <<"(", "2", " ", "+", " ", "3", ")", " ", "*", " ", "4">>,
     <<"2", " ", "*", "*", " ", "3", " ", "*", "*", " ", "2">>}

Template(shape, a, b, c, op1, op2, u1, u2, l, r) ==
    [shape |-> shape, a |-> a, b |-> b, c |-> c, op1 |-> op1, op2 |-> op2,
     u1 |-> u1, u2 |-> u2, l |-> l, r |-> r]
NoTemplate == Template("", NoOperand, NoOperand, NoOperand, "", "", "", "", <<>>, <<>>)

BinTemplates ==
    {Template("bin", a, b, NoOperand, op, "", u1, u2, <<>>, <<>>) :
        a \in BinOperands, b \in BinOperands, op \in BinarySymbols,
        u1 \in LeftSigns, u2 \in RightSigns}
TriTemplates ==
    {Template(sh, a, b, c, op1, op2, "", "", <<>>, <<>>) :
        sh \in {"tri", "triL", "triR"}, a \in TriOperands, b \in TriOperands,
        c \in TriOperands, op1 \in BinarySymbols, op2 \in BinarySymbols}
PairTemplates ==
    {Template("pair", NoOperand, NoOperand, NoOperand, op, "", "", "", l, r) :
        op \in {"/", "**"}, l \in SubExprs, r \in SubExprs}
RawTemplates ==
    {Template("raw", NoOperand, NoOperand, NoOperand, "", "", "", "", l, <<>>) :
        l \in RawInputs \cup GroupingExamples}

\* The text a template stands for.
Build(t) ==
    CASE t.shape = "bin" ->
            SignedText(t.u1, t.a.txt) \o <<" ">> \o OpText(t.op1) \o <<" ">>
            \o SignedText(t.u2, t.b.txt)
      [] t.shape = "tri" ->
            t.a.txt \o OpText(t.op1) \o t.b.txt \o OpText(t.op2) \o t.c.txt
      [] t.shape = "triL" ->
            <<"(">> \o t.a.txt \o OpText(t.op1) \o t.b.txt \o <<")">>
            \o OpText(t.op2) \o t.c.txt
      [] t.shape = "triR" ->
            t.a.txt \o OpText(t.op1) \o <<"(">> \o t.b.txt \o OpText(t.op2)
            \o t.c.txt \o <<")">>
      [] t.shape = "pair" ->
            <<"(">> \o t.l \o <<")">> \o OpText(t.op1) \o <<"(">> \o t.r \o <<")">>
      [] OTHER -> t.l

InModel(s) == safe_eval(s).exc # "OutOfModel"
TemplateInModel(t) ==
    /\ InModel(Build(t))
    /\ t.shape = "pair" => InModel(t.l) /\ InModel(t.r)

AllTemplates == BinTemplates \cup TriTemplates \cup PairTemplates \cup RawTemplates

Spaces(k) == [i \in 1..k |-> " "]
Pad(l, s, r) == Spaces(l) \o s \o Spaces(r)

CoreTexts ==
    {<<"2", "+", "3", "*", "4">>, <<"5", "/", "0">>, <<"x">>, <<"2", " ", "+">>}
PaddedTexts == {<<"2", " ", "*", " ", "3">>}

\* The values the field takes in the page model.
FieldValues ==
    {FieldValue(s) : s \in CoreTexts} \cup
    {FieldValue(Pad(l, s, r)) : l \in 0..MaxPad, r \in 0..MaxPad, s \in PaddedTexts} \cup
    {FieldValue(Spaces(k)) : k \in 0..MaxPad} \cup
    {FieldValue(<<"\t", " ">>), FieldValue(<<"\t", "7", "\t">>), NoFieldValue}

----------------------------------------------------------------------------
(* The script's top level, and the two specifications.                     *)

\* The state once the script has run: setup is registered while the
\* document is loading and has run otherwise.
ScriptLoaded ==
    /\ readyState \in {"loading", "interactive", "complete"}
    /\ hasButton \in BOOLEAN /\ hasInput \in BOOLEAN /\ hasOutput \in BOOLEAN
    /\ domListener = (readyState = "loading")
    /\ clickListener = (readyState # "loading" /\ hasButton)
    /\ keyListener = (readyState # "loading" /\ hasInput)
    /\ PROXIES = IF readyState = "loading" THEN <<"setup">> ELSE SetupProxies(<<>>)
    /\ output = InitialOutput
    /\ lastReq = NoReq
    /\ memo = NoMemo

Init ==
    /\ ScriptLoaded
    /\ value = FieldValue(<<>>)
    /\ tmpl = NoTemplate

\* The user edits the field.
SetValue(v) ==
    /\ hasInput
    /\ value # v
    /\ value' = v
    /\ UNCHANGED <<readyState, hasButton, hasInput, hasOutput, domListener,
                   clickListener, keyListener, PROXIES, output, lastReq, memo, tmpl>>

\* An observer notes a run of calculate_expression and the output it left.
Remember ==
    /\ lastReq.made /\ ~memo.set
    /\ memo' = [set |-> TRUE, trigger |-> lastReq.trigger, read |-> lastReq.read,
                output |-> output, overwritten |-> FALSE]
    /\ UNCHANGED <<readyState, hasButton, hasInput, hasOutput, domListener,
                   clickListener, keyListener, PROXIES, value, output, lastReq, tmpl>>

Next ==
    \/ DOMContentLoaded
    \/ \E v \in FieldValues : SetValue(v)
    \/ Click
    \/ \E key \in Keys : KeyDown(key)
    \/ Remember

Spec == Init /\ [][Next]_vars

\* One composed expression is in the field of a complete page; the user
\* asks for its evaluation.
InitEval ==
    /\ ScriptLoaded
    /\ readyState = "complete" /\ hasButton /\ hasInput /\ hasOutput
    /\ tmpl \in AllTemplates
    /\ TemplateInModel(tmpl)
    /\ value = FieldValue(Build(tmpl))

NextEval ==
    \/ Click
    \/ \E key \in Keys : KeyDown(key)

SpecEval == InitEval /\ [][NextEval]_vars

----------------------------------------------------------------------------
(* Properties of the evaluator, over SpecEval.                             *)

\* The request on record handed the field's text to safe_eval.
Evaluated == lastReq.made /\ lastReq.called

\* The operation a binary symbol stands for.
Apply(sym, x, y) ==
    CASE sym = "+" -> PyAdd(x, y)
      [] sym = "-" -> PySub(x, y)
      [] sym = "*" -> PyMul(x, y)
      [] sym = "/" -> PyTrueDiv(x, y)
      [] sym = "%" -> PyMod(x, y)
      [] sym = "//" -> PyFloorDiv(x, y)
      [] OTHER -> PyPow(x, y)

\* The operation on two outcomes: a failure of the left one comes first.
Lift(sym, l, r) ==
    IF ~l.ok THEN l ELSE IF ~r.ok THEN r ELSE Apply(sym, l.val, r.val)

\* An outcome under the sign written before it.
Signed(u, l) == IF u = "" \/ ~l.ok THEN l ELSE PyNeg(l.val)

\* Binding strength: additive, multiplicative, (unary,) exponentiation.
Prec(sym) ==
    CASE sym \in {"+", "-"} -> 1
      [] sym \in {"*", "/", "%", "//"} -> 2
      [] OTHER -> 4

\* The value of a composed expression under the grouping the precedence
\* and associativity rules give it.
Grouped(t) ==
    LET a == Ok(t.a.val)
        b == Ok(t.b.val)
        c == Ok(t.c.val)
    IN  CASE t.shape = "bin" ->
                IF t.u1 = "-" /\ t.op1 = "**"
                THEN Signed("-", Lift("**", a, Signed(t.u2, b)))
                ELSE Lift(t.op1, Signed(t.u1, a), Signed(t.u2, b))
          [] t.shape = "tri" ->
                IF Prec(t.op2) > Prec(t.op1) \/ (t.op1 = "**" /\ t.op2 = "**")
                THEN Lift(t.op1, a, Lift(t.op2, b, c))
                ELSE Lift(t.op2, Lift(t.op1, a, b), c)
          [] t.shape = "triL" -> Lift(t.op2, Lift(t.op1, a, b), c)
          [] OTHER -> Lift(t.op1, a, Lift(t.op2, b, c))

\* Does the text hold a name, a keyword, a string, a comparison, an
\* assignment or a call?
HasForbidden(s) ==
    \E i \in DOMAIN s :
        \/ s[i] \in LetterChars \cup {QuoteChar, "<", ">", "=", "!"}
        \/ s[i] = "(" /\ i > 1 /\ s[i - 1] \in DigitChars \cup LetterChars \cup {")"}

\* C1: every text holding an identifier, a string or boolean literal, a
\* comparison or logical operator, a call or an assignment fails in
\* safe_eval and is shown as "Error: ...", never as a "Result: ..." line.
C1_ForbiddenRejected ==
    Evaluated /\ HasForbidden(lastReq.arg)
        => ~lastReq.res.ok /\ output.text.head = "Error: "

\* C2: an expression of numbers, binary operators, signs and parentheses
\* has the value of its grouping by precedence (additive < multiplicative
\* < unary < exponentiation < primary), ** grouping to the right and the
\* other binary operators to the left; "2 + 3 * 4" is 14, "(2 + 3) * 4"
\* is 20 and "2 ** 3 ** 2" is 512.
C2_Grouping ==
    /\ Evaluated /\ tmpl.shape \in {"bin", "tri", "triL", "triR"}
            => lastReq.res = Grouped(tmpl)
    /\ Evaluated /\ lastReq.arg = <<"2", " ", "+", " ", "3", " ", "*", " ", "4">>
            => lastReq.res = Ok(PyInt(14))
    /\ Evaluated /\ lastReq.arg = <<"(", "2", " ", "+", " ", "3", ")", " ", "*", " ", "4">>
            => lastReq.res = Ok(PyInt(20))
    /\ Evaluated /\ lastReq.arg = <<"2", " ", "*", "*", " ", "3", " ", "*", "*", " ", "2">>
            => lastReq.res = Ok(PyInt(512))

\* A product to the right of a sum was evaluated first: 2+3*3 gave 11.
C2_Witness ==
    /\ Evaluated /\ tmpl.shape = "tri" /\ tmpl.op1 = "+" /\ tmpl.op2 = "*"
    /\ lastReq.res = Ok(PyInt(11))

\* The quotient "(l)/(r)" of two sub-expressions that both have a value,
\* the right one zero, was evaluated.
DivisionByZeroCase ==
    /\ Evaluated /\ tmpl.shape = "pair" /\ tmpl.op1 = "/"
    /\ safe_eval(tmpl.l).ok /\ safe_eval(tmpl.r).ok
    /\ IsZero(safe_eval(tmpl.r).val)

\* C3 as stated: a division whose right operand evaluates to zero fails
\* with the message "division by zero" and is shown as "Error: ...".
C3_DivisionByZeroMessage ==
    DivisionByZeroCase
        => /\ ~lastReq.res.ok
           /\ lastReq.res.msg = <<"division by zero">>
           /\ output.text.head = "Error: "

\* The text of the ZeroDivisionError of a / b, by the operands' types.
ZeroDivisionText(a, b) ==
    IF "complex" \in {a.t, b.t} THEN <<"complex ", "division by zero">>
    ELSE IF "float" \in {a.t, b.t} THEN <<"float ", "division by zero">>
    ELSE <<"division by zero">>

\* C3, amended: a division whose right operand evaluates to zero fails
\* with a ZeroDivisionError whose message is "division by zero", preceded
\* by "float " when an operand is a float and by "complex " when one is
\* complex; no value results and the output is "Error: " and that message
\* in red.
C3_DivisionByZeroFails ==
    DivisionByZeroCase
        => /\ ~lastReq.res.ok
           /\ lastReq.res.exc = "ZeroDivisionError"
           /\ lastReq.res.msg =
                  ZeroDivisionText(safe_eval(tmpl.l).val, safe_eval(tmpl.r).val)
           /\ output.text.head = "Error: "
           /\ output.text.msg = lastReq.res.msg
           /\ output.text.value = NoVal
           /\ output.color = "red"

\* (5.0)/(0) was evaluated and the output reads "float division by zero".
C3_Witness ==
    /\ DivisionByZeroCase
    /\ tmpl.l = <<"5", ".", "0">> /\ tmpl.r = <<"0">>
    /\ output.text.msg = <<"float ", "division by zero">>

\* The floor division or the remainder of two signed integer literals,
\* the divisor not zero, was evaluated.
IntegerDivisionCase ==
    /\ Evaluated /\ tmpl.shape = "bin" /\ tmpl.op1 \in {"//", "%"}
    /\ tmpl.a.val.t = "int" /\ tmpl.b.val.t = "int" /\ tmpl.b.val.n # 0

Dividend == IF tmpl.u1 = "" THEN tmpl.a.val.n ELSE -tmpl.a.val.n
Divisor == IF tmpl.u2 = "" THEN tmpl.b.val.n ELSE -tmpl.b.val.n

\* q is x / y rounded toward negative infinity.
IsFloorOf(q, x, y) ==
    IF y > 0 THEN q * y <= x /\ x < (q + 1) * y
    ELSE q * y >= x /\ x > (q + 1) * y

\* C4: for integers a and b # 0 of either sign, a // b is the quotient
\* rounded toward negative infinity and a % b is a - (a // b) * b, zero or
\* of the divisor's sign; 7 // 2 is 3 and -7 // 2 is -4.
C4_FloorSemantics ==
    /\ IntegerDivisionCase =>
        /\ lastReq.res.ok
        /\ lastReq.res.val.t = "int" /\ lastReq.res.val.d = 1
        /\ tmpl.op1 = "//" => IsFloorOf(lastReq.res.val.n, Dividend, Divisor)
        /\ tmpl.op1 = "%" =>
              \E q \in -MaxOperand..MaxOperand :
                  /\ IsFloorOf(q, Dividend, Divisor)
                  /\ lastReq.res.val.n = Dividend - q * Divisor
                  /\ \/ lastReq.res.val.n = 0
                     \/ Sign(lastReq.res.val.n) = Sign(Divisor)
    /\ Evaluated /\ lastReq.arg = <<"7", " ", "/", "/", " ", "2">>
            => lastReq.res = Ok(PyInt(3))
    /\ Evaluated /\ lastReq.arg = <<"-", "7", " ", "/", "/", " ", "2">>
            => lastReq.res = Ok(PyInt(-4))

\* -7 // 2 was evaluated and gave -4.
C4_Witness ==
    /\ IntegerDivisionCase
    /\ lastReq.arg = <<"-", "7", " ", "/", "/", " ", "2">>
    /\ lastReq.res.val.n = -4

\* The value has no fractional part.
Whole(v) == ~v.im /\ v.d = 1

\* C5: after a successful evaluation the type shown is "int" when the
\* value has no fractional part and "float" otherwise.
C5_TypeLabel ==
    Evaluated /\ lastReq.res.ok
        => /\ output.text.head = "Result: "
           /\ output.text.type = IF Whole(lastReq.res.val) THEN "int" ELSE "float"

\* The power "(l)**(r)" of a negative base and a fractional exponent was
\* evaluated.
NegativeBaseFractionalExponent ==
    /\ Evaluated /\ tmpl.shape = "pair" /\ tmpl.op1 = "**"
    /\ safe_eval(tmpl.l).ok /\ safe_eval(tmpl.r).ok
    /\ ~safe_eval(tmpl.l).val.im /\ safe_eval(tmpl.l).val.n < 0
    /\ ~safe_eval(tmpl.r).val.im /\ safe_eval(tmpl.r).val.d # 1

\* C10: a negative base raised to a fractional exponent fails and is
\* shown as "Error: ..."; no complex value and no "Result: ..." line.
C10_NegativeBaseFractionalPowerFails ==
    NegativeBaseFractionalExponent
        => /\ ~lastReq.res.ok
           /\ output.text.head = "Error: "
           /\ output.text.type # "complex"

----------------------------------------------------------------------------
(* Properties of the page, over Spec.                                      *)

\* A request was made on a page that has the field and the output element.
Requested == lastReq.made /\ hasInput /\ hasOutput

\* C6: a request made while both elements exist ends with the output in
\* one of two forms, a "Result: .. Type: .." in green or an "Error: .." or
\* the empty-input message in red, each with the outcome it belongs to; no
\* error of parsing or evaluating leaves calculate_expression.
C6_TwoForms ==
    Requested =>
        /\ ~lastReq.escaped
        /\ \/ /\ lastReq.called /\ lastReq.res.ok
              /\ output.color = "green"
              /\ output.text.head = "Result: " /\ output.text.type # ""
              /\ output.text.msg = <<>>
           \/ /\ lastReq.called /\ ~lastReq.res.ok
              /\ output.color = "red"
              /\ output.text.head = "Error: " /\ output.text.msg = lastReq.res.msg
              /\ output.text.value = NoVal /\ output.text.type = ""
           \/ /\ ~lastReq.called
              /\ output.color = "red"
              /\ output.text.head = "Please enter an expression."

\* 5/0 was requested: the ZeroDivisionError was caught and shown in red.
C6_Witness ==
    /\ Requested /\ lastReq.called
    /\ lastReq.res.exc = "ZeroDivisionError"
    /\ output.color = "red"

Whitespace == {" ", "\t"}

\* The field is missing its value, or holds nothing but white space.
Blank(v) == v.none \/ \A i \in DOMAIN v.s : v.s[i] \in Whitespace

\* arg is s without the white space at its two ends.
IsTrimOf(arg, s) ==
    /\ arg # <<>>
    /\ arg[1] \notin Whitespace /\ arg[Len(arg)] \notin Whitespace
    /\ \E i \in 0..Len(s) :
          /\ i + Len(arg) <= Len(s)
          /\ SubSeq(s, i + 1, i + Len(arg)) = arg
          /\ \A k \in 1..Len(s) : (k <= i \/ k > i + Len(arg)) => s[k] \in Whitespace

\* C7: when the field's value is empty, missing or only white space,
\* safe_eval is not called for the request and the output is the "Please
\* enter an expression." message in red; for any other value safe_eval is
\* handed the value without its leading and trailing white space.
C7_BlankOrStripped ==
    Requested =>
        IF Blank(lastReq.read)
        THEN ~lastReq.called /\ output = PleaseOutput
        ELSE lastReq.called /\ IsTrimOf(lastReq.arg, lastReq.read.s)

\* A value with white space at both ends was requested and safe_eval got
\* the text between.
C7_Witness ==
    /\ Requested /\ lastReq.called
    /\ Len(lastReq.read.s) = Len(lastReq.arg) + 2
    /\ lastReq.read.s[1] \in Whitespace

\* C8: once setup has run on a page with the button and the field, both
\* listeners are in place, and a click and an Enter keydown on the same
\* field value leave the output with the same text and the same colour.
C8_ClickAndEnterAgree ==
    /\ readyState # "loading" /\ hasButton /\ hasInput
            => clickListener /\ keyListener
    /\ memo.set /\ lastReq.made /\ memo.trigger # lastReq.trigger
                /\ memo.read = lastReq.read
            => memo.output = output

\* A click was remembered and Enter was then pressed on the same value.
C8_Witness ==
    /\ memo.set /\ memo.trigger = "click"
    /\ lastReq.trigger = "keydown" /\ lastReq.called
    /\ memo.read = lastReq.read
    /\ output.color = "green"

\* C9: the output of a request depends only on the field's value at that
\* request: two requests on the same value leave the same text and colour,
\* whatever requests came before or between them.
C9_NoHiddenState ==
    memo.set /\ lastReq.made /\ memo.read = lastReq.read
        => memo.output = output

\* The remembered output was replaced by a different one, and a request on
\* the remembered value then brought it back.
C9_Witness ==
    /\ memo.set /\ memo.overwritten
    /\ lastReq.called /\ memo.read = lastReq.read
    /\ memo.output = output

====
